---- MODULE Spec2Model ----
(***************************************************************************)
(* Model of app.py: the Flask relay with the handlers /ask (question and   *)
(* optional image forwarded to the Flowise prediction endpoint) and        *)
(* /send_itinerary (plain-text mail through an SMTP_SSL session).          *)
(*                                                                         *)
(* Strings that the code takes apart (filenames, backend text, base64      *)
(* output) are sequences of one-character strings.  JSON values are tagged *)
(* records.  Python's None for optional strings is the value None.         *)
(***************************************************************************)
EXTENDS Integers, Sequences, FiniteSets, TLC

VARIABLES
    FLOWISE_API_KEY,  \* app.py:27, read once at import
    GMAIL_USER,       \* app.py:29
    GMAIL_PASS,       \* app.py:30
    pc,               \* per request: position of its handler
    req,              \* per request: the HTTP request being served
    filename,         \* per request: ask_bot's local `filename`
    uploads,          \* per request: ask_bot's local `uploads`
    msg,              \* per request: send_itinerary's local `msg`
    disk,             \* the scratch directory: file name -> bytes
    saves,            \* per request: number of scratch files opened for writing
    sessions,         \* uuid4 values handed out so far
    posted,           \* per request: the POSTs made to the backend, in order
    smtpOpened,       \* per request: number of SMTP sessions opened
    smtpOpen,         \* per request: an SMTP session is open now
    outbox,           \* per request: messages accepted by the relay
    log,              \* per request: the lines it logged, in order
    resp,             \* per request: ask_bot's local `resp`, the backend's reply
    response          \* per request: the HTTP response, NoResp until returned

vars == <<FLOWISE_API_KEY, GMAIL_USER, GMAIL_PASS, pc, req, filename, uploads, msg,
          disk, saves, sessions, posted, smtpOpened, smtpOpen, outbox, log, resp, response>>

-----------------------------------------------------------------------------
(* Bounds of the model *)

\* longest uploaded file, in bytes
MaxUploadLen == 2

\* number of distinct uuid4 values
NumUuids == 2

\* how far past the log truncation point the longest backend text reaches
TextOverrun == 1

-----------------------------------------------------------------------------
(* Python values *)

None == "None"

Req == {1, 2}

Min(a, b) == IF a < b THEN a ELSE b

\* JSON values, as json.loads / jsonify see them
JNull == [t |-> "null"]
JStr(s) == [t |-> "str", s |-> s]
JNum(n) == [t |-> "num", n |-> n]
JBool(b) == [t |-> "bool", b |-> b]
JArr(a) == [t |-> "arr", a |-> a]
JObj(o) == [t |-> "obj", o |-> o]

\* Python truth value of a decoded JSON value
Truthy(v) ==
    CASE v.t = "null" -> FALSE
      [] v.t = "str"  -> v.s # ""
      [] v.t = "num"  -> v.n # 0
      [] v.t = "bool" -> v.b
      [] v.t = "arr"  -> Len(v.a) > 0
      [] v.t = "obj"  -> DOMAIN v.o # {}

\* v has a .get method (is a dict); anything else raises AttributeError
HasGet(v) == v.t = "obj"

\* dict.get(key): the value, or None when the key is absent
Get(v, key) == IF key \in DOMAIN v.o THEN v.o[key] ELSE JNull

\* dict.get(key, default)
GetDefault(v, key, default) == IF key \in DOMAIN v.o THEN v.o[key] ELSE default

\* Python's `a or b`
Or(a, b) == IF Truthy(a) THEN a ELSE b

-----------------------------------------------------------------------------
(* allowed_file, secure_filename, mimetypes.guess_type *)

UpperCase == <<"A","B","C","D","E","F","G","H","I","J","K","L","M",
               "N","O","P","Q","R","S","T","U","V","W","X","Y","Z">>
LowerCase == <<"a","b","c","d","e","f","g","h","i","j","k","l","m",
               "n","o","p","q","r","s","t","u","v","w","x","y","z">>
Digits == {"0","1","2","3","4","5","6","7","8","9"}

Range(s) == {s[i] : i \in DOMAIN s}

\* str.lower, character by character
LowerChar(c) ==
    IF c \in Range(UpperCase)
    THEN LowerCase[CHOOSE i \in DOMAIN UpperCase : UpperCase[i] = c]
    ELSE c

lower(s) == [i \in DOMAIN s |-> LowerChar(s[i])]

ALLOWED_EXT == { <<"p","n","g">>, <<"j","p","g">>, <<"j","p","e","g">>,
                 <<"g","i","f">>, <<"b","m","p">>, <<"w","e","b","p">> }

\* index of the last "." of s, 0 when there is none
LastDot(s) ==
    IF \E i \in DOMAIN s : s[i] = "."
    THEN CHOOSE i \in DOMAIN s : s[i] = "." /\ \A j \in DOMAIN s : s[j] = "." => j <= i
    ELSE 0

\* filename.rsplit(".", 1)[1]
Extension(s) == SubSeq(s, LastDot(s) + 1, Len(s))

allowed_file(name) ==
    /\ LastDot(name) > 0
    /\ lower(Extension(name)) \in ALLOWED_EXT

\* characters werkzeug's secure_filename keeps: [A-Za-z0-9_.-]
SafeChars == Range(UpperCase) \cup Range(LowerCase) \cup Digits \cup {"_", ".", "-"}

RECURSIVE StripLeft(_, _)
StripLeft(s, cs) ==
    IF Len(s) > 0 /\ Head(s) \in cs THEN StripLeft(Tail(s), cs) ELSE s

RECURSIVE StripRight(_, _)
StripRight(s, cs) ==
    IF Len(s) > 0 /\ s[Len(s)] \in cs THEN StripRight(SubSeq(s, 1, Len(s) - 1), cs) ELSE s

Strip(s, cs) == StripRight(StripLeft(s, cs), cs)

\* "_".join(s.split()): runs of blanks become one "_", outer blanks go
RECURSIVE JoinWords(_)
JoinWords(s) ==
    IF Len(s) = 0 THEN <<>>
    ELSE IF Head(s) = " "
         THEN <<"_">> \o JoinWords(StripLeft(s, {" "}))
         ELSE <<Head(s)>> \o JoinWords(Tail(s))

secure_filename(name) ==
    LET spaced == [i \in DOMAIN name |-> IF name[i] = "/" THEN " " ELSE name[i]]
        joined == JoinWords(Strip(spaced, {" "}))
        kept   == SelectSeq(joined, LAMBDA c : c \in SafeChars)
    IN  Strip(kept, {".", "_"})

\* mimetypes.guess_type(filename)[0]
guess_type(name) ==
    LET ext == lower(Extension(name))
    IN  IF LastDot(name) = 0 THEN None
        ELSE CASE ext = <<"p","n","g">> -> "image/png"
               [] ext \in {<<"j","p","g">>, <<"j","p","e","g">>} -> "image/jpeg"
               [] ext = <<"g","i","f">> -> "image/gif"
               [] ext = <<"b","m","p">> -> "image/bmp"
               [] ext = <<"w","e","b","p">> -> "image/webp"
               [] OTHER -> None

-----------------------------------------------------------------------------
(* base64.b64encode(raw).decode("utf-8") and the data URI *)

B64Alphabet == UpperCase \o LowerCase \o
               <<"0","1","2","3","4","5","6","7","8","9","+","/">>

B64Char(n) == B64Alphabet[n + 1]

RECURSIVE b64encode(_)
b64encode(raw) ==
    IF Len(raw) = 0 THEN <<>>
    ELSE IF Len(raw) = 1 THEN
        << B64Char(raw[1] \div 4), B64Char((raw[1] % 4) * 16), "=", "=" >>
    ELSE IF Len(raw) = 2 THEN
        << B64Char(raw[1] \div 4),
           B64Char((raw[1] % 4) * 16 + raw[2] \div 16),
           B64Char((raw[2] % 16) * 4), "=" >>
    ELSE
        << B64Char(raw[1] \div 4),
           B64Char((raw[1] % 4) * 16 + raw[2] \div 16),
           B64Char((raw[2] % 16) * 4 + raw[3] \div 64),
           B64Char(raw[3] % 64) >> \o b64encode(SubSeq(raw, 4, Len(raw)))

\* f"data:{mime};base64,{b64}"
DataUri(mime, b64) == <<"data:", mime, ";base64,">> \o b64

\* file.mimetype or mimetypes.guess_type(filename)[0] or "application/octet-stream"
Mime(mimetype, name) ==
    IF mimetype # "" THEN mimetype
    ELSE IF guess_type(name) # None THEN guess_type(name)
    ELSE "application/octet-stream"

\* the entry appended to `uploads`
Upload(name, mimetype, raw) ==
    [type |-> "file", name |-> name,
     data |-> DataUri(Mime(mimetype, name), b64encode(raw)),
     mime |-> Mime(mimetype, name)]

-----------------------------------------------------------------------------
(* Requests, replies and responses *)

NoReq  == [route |-> "none"]
NoFile == [present |-> FALSE]
NoResp == [pending |-> TRUE]
NoReply == [received |-> FALSE]

\* a response built by jsonify(...), status
Json(status, body) == [handled |-> TRUE, status |-> status, body |-> body]

\* an exception nobody catches: Flask answers 500 with its own error page
Fault(exception) == [handled |-> FALSE, status |-> 500, body |-> <<>>, exception |-> exception]

\* text of a response body that is not JSON
RawText(chars) == [t |-> "text", chars |-> chars]

\* number of characters of the backend text that the log line keeps (response.text[:500])
LOG_PREFIX == 500

\* text[:n]
Prefix(text, n) == SubSeq(text, 1, Min(Len(text), n))

\* a backend text of n characters
TextOfLen(n) == [i \in 1..n |-> "<"]

\* bytes of an upload of at most n bytes
ByteValues == {1, 255}
BytesUpTo(n) == UNION { [1..k -> ByteValues] : k \in 0..n }

\* file.save(path) writes from offset 0 through its own descriptor: what another
\* writer put beyond the written length stays
Overlay(bytes, old) == bytes \o SubSeq(old, Len(bytes) + 1, Len(old))

\* the disk after open(path, "wb"): the file exists and is empty
Truncated(d, name) ==
    [n \in DOMAIN d \cup {name} |-> IF n = name THEN <<>> ELSE d[n]]

\* the fallback taken on the presence of a field instead of its truth value
NormaliseByPresence(flowise_data) ==
    IF "text" \in DOMAIN flowise_data.o THEN flowise_data.o["text"]
    ELSE IF "answer" \in DOMAIN flowise_data.o THEN flowise_data.o["answer"]
    ELSE flowise_data

\* answer = flowise_data.get("text") or flowise_data.get("answer") or flowise_data
Normalise(flowise_data) ==
    Or(Or(Get(flowise_data, "text"), Get(flowise_data, "answer")), flowise_data)

\* response.status_code if response.status_code < 400 else 200
StatusOut(status_code) == IF status_code < 400 THEN status_code ELSE 200

\* headers of the POST
Headers(key) ==
    IF key \notin {None, ""}
    THEN [ContentType |-> "application/json", Authorization |-> <<"Bearer ", key>>]
    ELSE [ContentType |-> "application/json"]

\* the payload of the POST
Payload(question, ups, sid) ==
    [question |-> question, uploads |-> ups, overrideConfig |-> [sessionId |-> sid]]

\* the transport failure reported as a server error of the relay itself
UnreachableAs500(detail) == Json(500, [error |-> "failed to reach Flowise", detail |-> detail])

\* lines 104-106: the response when requests.post raised
Unreachable(detail) == Json(502, [error |-> "failed to reach Flowise", detail |-> detail])

\* the client given the same cut text as the log
InvalidResponseTruncated(text) ==
    Json(500, [error |-> "invalid response from flowise",
               raw |-> RawText(Prefix(text, LOG_PREFIX))])

\* line 113: the response when resp.json() raised ValueError
InvalidResponse(text) ==
    Json(500, [error |-> "invalid response from flowise", raw |-> RawText(text)])

\* lines 116-122: the envelope around a decoded reply; .get on a non-dict raises
Envelope(status_code, flowise_data) ==
    IF ~HasGet(flowise_data)
    THEN Fault("AttributeError")
    ELSE Json(StatusOut(status_code),
              [success |-> TRUE, answer |-> Normalise(flowise_data), raw |-> flowise_data])

\* what ask_bot returns for a backend outcome (lines 102-122)
AskResponse(reply) ==
    IF reply.exc THEN Unreachable(reply.detail)
    ELSE IF ~reply.json THEN InvalidResponse(reply.text)
    ELSE Envelope(reply.status_code, reply.value)

\* what ask_bot logs for a backend outcome
AskLog(reply) ==
    IF reply.exc
    THEN <<[line |-> "Failed to call Flowise prediction endpoint", arg |-> JNull]>>
    ELSE IF ~reply.json
    THEN <<[line |-> "Non-JSON response from Flowise: %s",
            arg |-> RawText(Prefix(reply.text, LOG_PREFIX))]>>
    ELSE <<>>

-----------------------------------------------------------------------------
(* /ask *)

\* the check `question is None`, which lets the empty string through
QuestionIsNone(question) == question = None

\* line 60: `not question`
QuestionMissing(question) == question \in {None, ""}

\* lines 57-72: the request arrives, question and file type are validated
AskReceive(r, questions, files) ==
    /\ pc[r] = "idle"
    /\ \E question \in questions, file \in files :
        /\ req' = [req EXCEPT ![r] = [route |-> "/ask", question |-> question, file |-> file]]
        /\ IF QuestionMissing(question)
           THEN /\ response' = [response EXCEPT ![r] = Json(400, [error |-> "question field is required"])]
                /\ pc' = [pc EXCEPT ![r] = "done"]
                /\ UNCHANGED filename
           ELSE IF ~file.present \/ file.filename = <<>>
           THEN /\ pc' = [pc EXCEPT ![r] = "post"]
                /\ UNCHANGED <<response, filename>>
           ELSE IF ~allowed_file(file.filename)
           THEN /\ response' = [response EXCEPT ![r] = Json(400, [error |-> "file type not allowed"])]
                /\ pc' = [pc EXCEPT ![r] = "done"]
                /\ UNCHANGED filename
           ELSE /\ filename' = [filename EXCEPT ![r] = secure_filename(file.filename)]
                /\ pc' = [pc EXCEPT ![r] = "save"]
                /\ UNCHANGED response
    /\ UNCHANGED <<resp, FLOWISE_API_KEY, GMAIL_USER, GMAIL_PASS, uploads, msg, disk, saves,
                   sessions, posted, smtpOpened, smtpOpen, outbox, log>>

\* line 73, first half: file.save opens the scratch file for writing, or fails
AskSaveOpen(r) ==
    /\ pc[r] = "save"
    /\ \/ /\ disk' = Truncated(disk, filename[r])
          /\ saves' = [saves EXCEPT ![r] = @ + 1]
          /\ pc' = [pc EXCEPT ![r] = "write"]
          /\ UNCHANGED response
       \/ /\ response' = [response EXCEPT ![r] = Fault("OSError")]
          /\ pc' = [pc EXCEPT ![r] = "done"]
          /\ UNCHANGED <<disk, saves>>
    /\ UNCHANGED <<resp, FLOWISE_API_KEY, GMAIL_USER, GMAIL_PASS, req, filename, uploads, msg,
                   sessions, posted, smtpOpened, smtpOpen, outbox, log>>

\* line 73, second half: the uploaded bytes are written and the file is closed
AskSaveWrite(r) ==
    /\ pc[r] = "write"
    /\ disk' = [disk EXCEPT ![filename[r]] = Overlay(req[r].file.bytes, @)]
    /\ pc' = [pc EXCEPT ![r] = "read"]
    /\ UNCHANGED <<resp, FLOWISE_API_KEY, GMAIL_USER, GMAIL_PASS, req, filename, uploads, msg,
                   saves, sessions, posted, smtpOpened, smtpOpen, outbox, log, response>>

\* lines 76-87: the scratch file is read back and encoded, or the read fails
AskRead(r) ==
    /\ pc[r] = "read"
    /\ \/ /\ uploads' = [uploads EXCEPT ![r] =
                 <<Upload(filename[r], req[r].file.mimetype, disk[filename[r]])>>]
          /\ pc' = [pc EXCEPT ![r] = "post"]
          /\ UNCHANGED response
       \/ /\ response' = [response EXCEPT ![r] = Fault("OSError")]
          /\ pc' = [pc EXCEPT ![r] = "done"]
          /\ UNCHANGED uploads
    /\ UNCHANGED <<resp, FLOWISE_API_KEY, GMAIL_USER, GMAIL_PASS, req, filename, msg, disk,
                   saves, sessions, posted, smtpOpened, smtpOpen, outbox, log>>

\* lines 90-122: payload with a new uuid4, the one POST, and the reply's handling
AskPost(r, uuids, replies) ==
    /\ pc[r] = "post"
    /\ \E sid \in uuids \ sessions, reply \in replies :
        /\ sessions' = sessions \cup {sid}
        /\ posted' = [posted EXCEPT ![r] =
               Append(@, [json |-> Payload(req[r].question, uploads[r], sid),
                          headers |-> Headers(FLOWISE_API_KEY)])]
        /\ resp' = [resp EXCEPT ![r] = reply]
        /\ response' = [response EXCEPT ![r] = AskResponse(reply)]
        /\ log' = [log EXCEPT ![r] = @ \o AskLog(reply)]
    /\ pc' = [pc EXCEPT ![r] = "done"]
    /\ UNCHANGED <<FLOWISE_API_KEY, GMAIL_USER, GMAIL_PASS, req, filename, uploads, msg,
                   disk, saves, smtpOpened, smtpOpen, outbox>>

-----------------------------------------------------------------------------
(* /send_itinerary *)

\* request.get_json(force=True, silent=True) or {}
RequestData(body) ==
    Or(IF body.json THEN body.value ELSE JNull, JObj(<<>>))

\* the check of the user alone
UserMissing(user, pass) == user \in {None, ""}

\* `not GMAIL_USER or not GMAIL_PASS`
CredentialsMissing(user, pass) == user \in {None, ""} \/ pass \in {None, ""}

\* a session that is not closed when the block is left
WithExitLeak(open, r) == open

\* leaving the `with smtplib.SMTP_SSL(...)` block, normally or by an exception
WithExit(open, r) == [open EXCEPT ![r] = FALSE]

\* the except branch's response (lines 154-156)
SendFailure(detail) == Json(500, [error |-> "failed to send email", detail |-> detail])

SendFailureLog == <<[line |-> "Failed to send itinerary email", arg |-> JNull]>>

\* lines 131-147: the body is read and validated, the message is built
SendReceive(r, bodies) ==
    /\ pc[r] = "idle"
    /\ \E body \in bodies :
        LET data      == RequestData(body)
            recipient == Get(data, "email")
            itinerary == GetDefault(data, "itinerary", JStr(""))
            subject   == GetDefault(data, "subject", JStr("Travel Guide Bot: Landmark Details"))
        IN  /\ req' = [req EXCEPT ![r] = [route |-> "/send_itinerary", body |-> body]]
            /\ IF ~HasGet(data)
               THEN /\ response' = [response EXCEPT ![r] = Fault("AttributeError")]
                    /\ pc' = [pc EXCEPT ![r] = "done"]
                    /\ UNCHANGED <<msg, log>>
               ELSE IF ~Truthy(recipient)
               THEN /\ response' = [response EXCEPT ![r] = Json(400, [error |-> "email is required"])]
                    /\ pc' = [pc EXCEPT ![r] = "done"]
                    /\ UNCHANGED <<msg, log>>
               ELSE IF CredentialsMissing(GMAIL_USER, GMAIL_PASS)
               THEN /\ response' = [response EXCEPT ![r] =
                            Json(500, [error |-> "email credentials not configured"])]
                    /\ log' = [log EXCEPT ![r] = Append(@,
                            [line |-> "Email credentials not configured on server environment",
                             arg |-> JNull])]
                    /\ pc' = [pc EXCEPT ![r] = "done"]
                    /\ UNCHANGED msg
               ELSE IF itinerary.t # "str"
               THEN /\ response' = [response EXCEPT ![r] = Fault("AttributeError")]
                    /\ pc' = [pc EXCEPT ![r] = "done"]
                    /\ UNCHANGED <<msg, log>>
               ELSE /\ msg' = [msg EXCEPT ![r] =
                            [Subject |-> subject, From |-> GMAIL_USER, To |-> recipient,
                             text |-> itinerary]]
                    /\ pc' = [pc EXCEPT ![r] = "connect"]
                    /\ UNCHANGED <<response, log>>
    /\ UNCHANGED <<resp, FLOWISE_API_KEY, GMAIL_USER, GMAIL_PASS, filename, uploads, disk, saves,
                   sessions, posted, smtpOpened, smtpOpen, outbox>>

\* line 150: SMTP_SSL("smtp.gmail.com", 465) connects, or raises
SendConnect(r) ==
    /\ pc[r] = "connect"
    /\ \/ /\ smtpOpened' = [smtpOpened EXCEPT ![r] = @ + 1]
          /\ smtpOpen' = [smtpOpen EXCEPT ![r] = TRUE]
          /\ pc' = [pc EXCEPT ![r] = "login"]
          /\ UNCHANGED <<response, log>>
       \/ /\ response' = [response EXCEPT ![r] = SendFailure("connection failed")]
          /\ log' = [log EXCEPT ![r] = @ \o SendFailureLog]
          /\ pc' = [pc EXCEPT ![r] = "done"]
          /\ UNCHANGED <<smtpOpened, smtpOpen>>
    /\ UNCHANGED <<resp, FLOWISE_API_KEY, GMAIL_USER, GMAIL_PASS, req, filename, uploads, msg,
                   disk, saves, sessions, posted, outbox>>

\* line 151: server.login succeeds, or raises out of the with block
SendLogin(r) ==
    /\ pc[r] = "login"
    /\ \/ /\ pc' = [pc EXCEPT ![r] = "sendmail"]
          /\ UNCHANGED <<smtpOpen, response, log>>
       \/ /\ smtpOpen' = WithExit(smtpOpen, r)
          /\ response' = [response EXCEPT ![r] = SendFailure("authentication failed")]
          /\ log' = [log EXCEPT ![r] = @ \o SendFailureLog]
          /\ pc' = [pc EXCEPT ![r] = "done"]
    /\ UNCHANGED <<resp, FLOWISE_API_KEY, GMAIL_USER, GMAIL_PASS, req, filename, uploads, msg,
                   disk, saves, sessions, posted, smtpOpened, outbox>>

\* lines 152-156: server.sendmail succeeds or raises; the with block is left,
\* and its QUIT may itself raise after the message was accepted
SendMail(r) ==
    /\ pc[r] = "sendmail"
    /\ smtpOpen' = WithExit(smtpOpen, r)
    /\ \/ /\ outbox' = [outbox EXCEPT ![r] = Append(@, msg[r])]
          /\ response' = [response EXCEPT ![r] = Json(200, [success |-> TRUE, status |-> "Email sent"])]
          /\ UNCHANGED log
       \/ /\ outbox' = [outbox EXCEPT ![r] = Append(@, msg[r])]
          /\ response' = [response EXCEPT ![r] = SendFailure("QUIT refused")]
          /\ log' = [log EXCEPT ![r] = @ \o SendFailureLog]
       \/ /\ response' = [response EXCEPT ![r] = SendFailure("relay rejected the message")]
          /\ log' = [log EXCEPT ![r] = @ \o SendFailureLog]
          /\ UNCHANGED outbox
    /\ pc' = [pc EXCEPT ![r] = "done"]
    /\ UNCHANGED <<resp, FLOWISE_API_KEY, GMAIL_USER, GMAIL_PASS, req, filename, uploads, msg,
                   disk, saves, sessions, posted, smtpOpened>>

-----------------------------------------------------------------------------
(* The environment: clients, the backend, the server's configuration *)

\* str(uuid.uuid4()): a new value is taken to differ from those handed out before
Uuids == 1..NumUuids

Questions == {None, "", "q1", "q2"}

FileNames ==
    { <<>>,
      <<"a",".","p","n","g">>,
      <<"/","a",".","p","n","g">>,
      <<"b",".","P","N","G">>,
      <<"x"," ","y",".","g","i","f">>,
      <<".","p","n","g">>,
      <<"a",".","e","x","e">>,
      <<"p","n","g">> }

UploadedFile(name, mimetype, bytes) ==
    [present |-> TRUE, filename |-> name, mimetype |-> mimetype, bytes |-> bytes]

Files ==
    {NoFile} \cup
    { UploadedFile(n, m, b) : n \in FileNames, m \in {"", "image/png"},
                              b \in BytesUpTo(MaxUploadLen) }

ConnectError(detail) ==
    [exc |-> TRUE, detail |-> detail, status_code |-> 0, json |-> FALSE,
     text |-> <<>>, value |-> JNull]
TextReply(status_code, text) ==
    [exc |-> FALSE, detail |-> "", status_code |-> status_code, json |-> FALSE,
     text |-> text, value |-> JNull]
JsonReply(status_code, value) ==
    [exc |-> FALSE, detail |-> "", status_code |-> status_code, json |-> TRUE,
     text |-> <<>>, value |-> value]

StatusCodes == {200, 201, 400, 503}

BackendTexts ==
    { TextOfLen(1), TextOfLen(LOG_PREFIX), TextOfLen(LOG_PREFIX + TextOverrun) }

BackendValues ==
    { JObj([text |-> JStr("X")]),
      JObj([text |-> JStr("X"), answer |-> JStr("Y")]),
      JObj([answer |-> JStr("Y")]),
      JObj([text |-> JStr(""), answer |-> JStr("Y")]),
      JObj([text |-> JNull]),
      JObj([text |-> JBool(FALSE), answer |-> JBool(TRUE)]),
      JObj([answer |-> JNum(0), other |-> JStr("Z")]),
      JObj([other |-> JStr("Z")]),
      JObj(<<>>),
      JArr(<<JStr("X")>>),
      JStr("X"),
      JNull }

Replies ==
    {ConnectError("connection refused"), ConnectError("timed out")} \cup
    { TextReply(c, t) : c \in StatusCodes, t \in BackendTexts } \cup
    { JsonReply(c, v) : c \in StatusCodes, v \in BackendValues }

NotJsonBody == [json |-> FALSE, value |-> JNull]
JsonBody(value) == [json |-> TRUE, value |-> value]

MailBodies ==
    { NotJsonBody,
      JsonBody(JObj(<<>>)),
      JsonBody(JObj([email |-> JStr("")])),
      JsonBody(JObj([email |-> JNull, itinerary |-> JStr("Day 1")])),
      JsonBody(JObj([itinerary |-> JStr("Day 1")])),
      JsonBody(JObj([email |-> JStr("a@b.c")])),
      JsonBody(JObj([email |-> JStr("a@b.c"), itinerary |-> JStr("Day 1"),
                     subject |-> JStr("Trip")])),
      JsonBody(JObj([email |-> JStr("a@b.c"), itinerary |-> JNum(5)])),
      JsonBody(JObj([email |-> JStr("a@b.c"), itinerary |-> JNull])),
      JsonBody(JArr(<<>>)),
      JsonBody(JArr(<<JStr("a@b.c")>>)),
      JsonBody(JStr("a@b.c")),
      JsonBody(JNum(0)),
      JsonBody(JNull) }

\* environment settings the server may be started with
Configs ==
    { [key |-> None, user |-> None,          pass |-> None],
      [key |-> "k",  user |-> "bot@mail",    pass |-> "pw"],
      [key |-> "",   user |-> "bot@mail",    pass |-> ""],
      [key |-> None, user |-> "",            pass |-> "pw"],
      [key |-> "k",  user |-> "bot@mail",    pass |-> None],
      [key |-> None, user |-> None,          pass |-> "pw"] }

-----------------------------------------------------------------------------
(* Specifications *)

Init ==
    /\ \E c \in Configs :
        /\ FLOWISE_API_KEY = c.key
        /\ GMAIL_USER = c.user
        /\ GMAIL_PASS = c.pass
    /\ pc = [r \in Req |-> "idle"]
    /\ req = [r \in Req |-> NoReq]
    /\ filename = [r \in Req |-> <<>>]
    /\ uploads = [r \in Req |-> <<>>]
    /\ msg = [r \in Req |-> NoReq]
    /\ disk = <<>>
    /\ saves = [r \in Req |-> 0]
    /\ sessions = {}
    /\ posted = [r \in Req |-> <<>>]
    /\ smtpOpened = [r \in Req |-> 0]
    /\ smtpOpen = [r \in Req |-> FALSE]
    /\ outbox = [r \in Req |-> <<>>]
    /\ log = [r \in Req |-> <<>>]
    /\ resp = [r \in Req |-> NoReply]
    /\ response = [r \in Req |-> NoResp]

\* one request at a time, any client input, any backend and relay behaviour
Next ==
    \E r \in {1} :
        \/ AskReceive(r, Questions, Files)
        \/ AskSaveOpen(r)
        \/ AskSaveWrite(r)
        \/ AskRead(r)
        \/ AskPost(r, Uuids, Replies)
        \/ SendReceive(r, MailBodies)
        \/ SendConnect(r)
        \/ SendLogin(r)
        \/ SendMail(r)

Spec == Init /\ [][Next]_vars

\* two clients at once on /ask, whose uploads may land on the same scratch file
ConcQuestions == {"", "q1", "q2"}

ConcFiles ==
    {NoFile} \cup
    { UploadedFile(n, "", b) : n \in { <<"a",".","p","n","g">>, <<"/","a",".","p","n","g">> },
                               b \in BytesUpTo(MaxUploadLen) }

ConcReplies == { ConnectError("connection refused"), JsonReply(200, JObj([text |-> JStr("X")])) }

InitConc == Init /\ FLOWISE_API_KEY = None /\ GMAIL_USER = None /\ GMAIL_PASS = None

NextConc ==
    \E r \in Req :
        \/ AskReceive(r, ConcQuestions, ConcFiles)
        \/ AskSaveOpen(r)
        \/ AskSaveWrite(r)
        \/ AskRead(r)
        \/ AskPost(r, Uuids, ConcReplies)

SpecConc == InitConc /\ [][NextConc]_vars

-----------------------------------------------------------------------------
(* Properties *)

Asked(r) == req[r].route = "/ask"
Mailed(r) == req[r].route = "/send_itinerary"
Done(r) == pc[r] = "done"

\* the backend answered request r with a body that parses as JSON
JsonReplied(r) == Asked(r) /\ Done(r) /\ resp[r] # NoReply /\ ~resp[r].exc /\ resp[r].json

\* the decoded body is an object with the field
HasField(v, key) == v.t = "obj" /\ key \in DOMAIN v.o

\* the response is the success envelope {success, answer, raw} around v
IsEnvelope(out, v) ==
    /\ out.handled
    /\ DOMAIN out.body = {"success", "answer", "raw"}
    /\ out.body.success = TRUE
    /\ out.body.raw = v

\* C1 as stated, on the replies that decode to an object: the answer is the
\* `text` field whenever the body has one, else the `answer` field whenever the
\* body has one, else the whole body, with success=true and raw = the decoded
\* body.
C1_AsStated ==
    \A r \in Req : (JsonReplied(r) /\ resp[r].value.t = "obj") =>
        LET v == resp[r].value
        IN  /\ IsEnvelope(response[r], v)
            /\ response[r].body.answer =
                   IF HasField(v, "text") THEN v.o["text"]
                   ELSE IF HasField(v, "answer") THEN v.o["answer"]
                   ELSE v

\* C1 amended: for a reply that parses as a JSON object the answer is the `text`
\* field when present and truthy, else the `answer` field when present and
\* truthy, else the whole body, with success=true and raw = the decoded body;
\* a JSON reply that is not an object gets no envelope, the handler raises.
C1_TruthyFallback ==
    \A r \in Req : JsonReplied(r) =>
        LET v == resp[r].value
        IN  IF v.t = "obj"
            THEN /\ IsEnvelope(response[r], v)
                 /\ response[r].body.answer =
                        IF HasField(v, "text") /\ Truthy(v.o["text"]) THEN v.o["text"]
                        ELSE IF HasField(v, "answer") /\ Truthy(v.o["answer"]) THEN v.o["answer"]
                        ELSE v
            ELSE ~response[r].handled

\* a reply with an empty `text` and an `answer` was answered with the `answer`
C1_Witness ==
    \E r \in Req :
        /\ JsonReplied(r)
        /\ HasField(resp[r].value, "text") /\ resp[r].value.o["text"] = JStr("")
        /\ response[r].handled
        /\ response[r].body.answer = JStr("Y")

\* C2: whenever the reply parses as JSON the caller gets the backend's status
\* if it is below 400 and 200 otherwise, around the envelope {success, answer, raw}.
C2_StatusMirrored ==
    \A r \in Req : JsonReplied(r) =>
        /\ IsEnvelope(response[r], resp[r].value)
        /\ response[r].status =
               IF resp[r].status_code < 400 THEN resp[r].status_code ELSE 200

\* C3: an /ask request without a question, or with an empty one, is answered 400
\* with an `error` field, and never posts to the backend nor writes a scratch
\* file, whatever image comes with it.
C3_NoQuestionNoEffect ==
    \A r \in Req : (Asked(r) /\ req[r].question \in {None, ""}) =>
        /\ Done(r)
        /\ response[r].handled
        /\ response[r].status = 400
        /\ "error" \in DOMAIN response[r].body
        /\ posted[r] = <<>>
        /\ saves[r] = 0
        /\ resp[r] = NoReply

\* an empty question sent with an allowed image has been answered
C3_Witness ==
    \E r \in Req :
        /\ Asked(r) /\ req[r].question = ""
        /\ req[r].file.present /\ allowed_file(req[r].file.filename)
        /\ Done(r) /\ response[r].status = 400

\* C4: every finished request got one of the handler's own JSON responses;
\* no exception leaves a handler.
C4_NoUnhandledFault ==
    \A r \in Req : Done(r) => response[r].handled

C6_Unreachable502 ==
    \A r \in Req :
        /\ Len(posted[r]) <= 1
        /\ (Asked(r) /\ resp[r] # NoReply /\ resp[r].exc) =>
               /\ Done(r)
               /\ response[r].handled
               /\ response[r].status = 502
               /\ DOMAIN response[r].body = {"error", "detail"}
               /\ Len(posted[r]) = 1

\* a POST failed and was answered
C6_Witness ==
    \E r \in Req :
        /\ Asked(r) /\ resp[r] # NoReply /\ resp[r].exc
        /\ Len(posted[r]) = 1 /\ response[r].status = 502

\* C7: of two concurrent /ask requests, each posts its own question, a session
\* id the other does not post, and, with an upload, a data URI that encodes the
\* bytes uploaded in that same request.
C7_NoLeak ==
    \A r \in Req : \A i \in DOMAIN posted[r] :
        LET p == posted[r][i].json
        IN  /\ p.question = req[r].question
            /\ \A o \in Req \ {r} : \A j \in DOMAIN posted[o] :
                   posted[o][j].json.overrideConfig.sessionId # p.overrideConfig.sessionId
            /\ (req[r].file.present /\ req[r].file.filename # <<>>) =>
                   /\ Len(p.uploads) = 1
                   /\ p.uploads[1].data =
                          DataUri(p.uploads[1].mime, b64encode(req[r].file.bytes))

\* the request carried no usable recipient
NoEmail(body) ==
    \/ ~body.json
    \/ ~HasField(body.value, "email")
    \/ body.value.o["email"] = JStr("")

\* C8: a /send_itinerary request without an `email` (empty email, empty object,
\* unparseable body included) is answered 400 with `error`, and opens no SMTP
\* connection, whatever the credentials.
C8_NoEmail400 ==
    \A r \in Req : (Mailed(r) /\ NoEmail(req[r].body)) =>
        /\ Done(r)
        /\ response[r].handled
        /\ response[r].status = 400
        /\ "error" \in DOMAIN response[r].body
        /\ smtpOpened[r] = 0

\* the credentials are unset
Unset(v) == v \in {None, ""}

\* C9 as stated: every /send_itinerary request made with GMAIL_USER or GMAIL_PASS
\* unset is answered 500 {error: "email credentials not configured"} and opens
\* no SMTP connection.
C9_AsStated ==
    \A r \in Req : (Mailed(r) /\ (Unset(GMAIL_USER) \/ Unset(GMAIL_PASS))) =>
        /\ Done(r)
        /\ response[r] = Json(500, [error |-> "email credentials not configured"])
        /\ smtpOpened[r] = 0

\* C9 amended: with the credentials unset, a /send_itinerary request whose body
\* is an object with a truthy `email` is answered 500 {error: "email credentials
\* not configured"}; the check for the recipient comes first, so a request
\* without one is answered 400; and no request opens an SMTP connection.
C9_UnsetCredentials ==
    \A r \in Req : (Mailed(r) /\ (Unset(GMAIL_USER) \/ Unset(GMAIL_PASS))) =>
        /\ Done(r)
        /\ smtpOpened[r] = 0
        /\ (HasField(req[r].body.value, "email") /\ Truthy(req[r].body.value.o["email"])) =>
               response[r] = Json(500, [error |-> "email credentials not configured"])
        /\ (req[r].body.value.t = "obj" /\ ~Truthy(Get(req[r].body.value, "email"))) =>
               response[r] = Json(400, [error |-> "email is required"])

\* a request with a recipient met a server with a user but an empty password
C9_Witness ==
    \E r \in Req :
        /\ Mailed(r) /\ ~Unset(GMAIL_USER) /\ Unset(GMAIL_PASS)
        /\ HasField(req[r].body.value, "email") /\ Truthy(req[r].body.value.o["email"])
        /\ response[r].status = 500

\* C10: a validated /send_itinerary request opens at most one SMTP session, and
\* no response exists while its session is open: after the send (200 {success,
\* status}), after a failed login and after a failed sendmail (500 {error:
\* "failed to send email", detail}) the session is closed.
C10_SessionClosed ==
    \A r \in Req :
        /\ smtpOpened[r] <= 1
        /\ response[r] # NoResp => ~smtpOpen[r]
        /\ Len(outbox[r]) <= 1
        /\ smtpOpen[r] => pc[r] \in {"login", "sendmail"}
        /\ (Done(r) /\ smtpOpened[r] = 1) =>
               \/ /\ response[r] = Json(200, [success |-> TRUE, status |-> "Email sent"])
                  /\ Len(outbox[r]) = 1
               \/ /\ response[r].handled /\ response[r].status = 500
                  /\ DOMAIN response[r].body = {"error", "detail"}
                  /\ response[r].body.error = "failed to send email"

\* a login failed after the session was opened, and the request was answered
C10_Witness ==
    \E r \in Req :
        /\ Mailed(r) /\ Done(r) /\ smtpOpened[r] = 1
        /\ response[r] = SendFailure("authentication failed")
        /\ ~smtpOpen[r]

====
